---- MODULE Spec2Model ----
(***************************************************************************)
(* embedded-nal, src/stack/tcp.rs: the TcpClientStack capability, its      *)
(* blanket implementation for &mut T, the StackAndSocket adapter and its   *)
(* ufmt::uWrite implementation (write_str), plus the SharedStack borrow    *)
(* discipline that src/stack/mod.rs re-exports.                            *)
(***************************************************************************)
EXTENDS Integers, Sequences, FiniteSets, TLC

\* ------------------------------------------------------------------ bounds
MaxLen == 3         \* longest message handed to write_str
MaxK == 2           \* largest per-call cap K of the fake stack
MaxOver == 2        \* over-reporting answers one write_str run may receive
MaxSockets == 2     \* sockets the stack T can hand out
MaxBuf == 2         \* longest buffer given to send or receive
MaxOps == 4         \* operations issued on T
MaxSharedOps == 4   \* operations served through the SharedStack
UsizeBits == 16     \* width of usize (cursor, n) on a 16-bit target

Bytes == {"a", "b"}
Errors == {"E1", "E2"}

RECURSIVE Pow2(_)
Pow2(k) == IF k = 0 THEN 1 ELSE 2 * Pow2(k - 1)

UsizeMod == Pow2(UsizeBits)
UsizeMax == UsizeMod - 1

Min(a, b) == IF a < b THEN a ELSE b

SeqsUpTo(S, n) == UNION {[1..k -> S] : k \in 0..n}

Messages == SeqsUpTo(Bytes, MaxLen)

\* ------------------------------------------------------------------ state
VARIABLES
    \* StackAndSocket::write_str (tcp.rs:193-203)
    message,        \* message.as_bytes()
    cursor,         \* let mut cursor
    pc,             \* "loop" | "send" | "done" | "panic" | "oob"
    buf,            \* the argument &message[cursor..] of the send call in flight
    ret,            \* what write_str returned
    overflowChecks, \* build profile: does usize + panic on overflow or wrap
    \* the stack behind self.tcp_stack, as seen through TcpClientStack::send
    K,              \* bytes it accepts per call at most
    received,       \* bytes it accepted, in call order
    acked,          \* sum of the counts it returned
    lastRes,        \* its latest answer
    lastBuf,        \* the buffer that answer was given for
    overs,          \* how many answers reported more than the buffer held
    \* one operation sequence issued three ways (tcp.rs:92-186)
    stDirect,       \* the stack T, called directly
    stRef,          \* the same stack, called through &mut T
    stPair,         \* the same stack, called through StackAndSocket
    resDirect,      \* what the latest operation returned, each way
    resRef,
    resPair,
    lastOp,         \* the latest operation the caller issued, with its arguments
    \* SharedStack (stack/share.rs, re-exported by stack/mod.rs:5)
    holders,        \* borrowers holding a live mutable borrow of the stack
    attempt,        \* outcome of each borrower's latest borrow attempt
    seen,           \* who held the stack when that attempt was made
    sharedLog       \* the operations the shared stack served, by borrower

wvars == <<message, cursor, pc, buf, ret, overflowChecks,
           K, received, acked, lastRes, lastBuf, overs>>

fvars == <<stDirect, stRef, stPair, resDirect, resRef, resPair, lastOp>>

svars == <<holders, attempt, seen, sharedLog>>

vars == <<wvars, fvars, svars>>

\* nb::Result<usize, E> as a value
WouldBlock == [kind |-> "WouldBlock", n |-> 0, e |-> "none"]
Ready(n) == [kind |-> "Ready", n |-> n, e |-> "none"]
Error(e) == [kind |-> "Error", n |-> 0, e |-> e]
NoRes == [kind |-> "none", n |-> 0, e |-> "none"]

\* Result<(), E> of write_str, or the panic that ended it
RetNone == [kind |-> "none", e |-> "none"]
RetOk == [kind |-> "Ok", e |-> "none"]
RetErr(e) == [kind |-> "Err", e |-> e]
RetPanic == [kind |-> "Panic", e |-> "none"]

\* the slice taken without the cursor: the whole message every time
Remaining_Whole(m, c) == m

\* &message[cursor..]; defined for cursor <= message.len() only
Remaining(m, c) == SubSeq(m, c + 1, Len(m))

\* the first n bytes of a buffer
Take(b, n) == SubSeq(b, 1, Min(n, Len(b)))

\* the test off by one: the body runs once more at the end of the message
LoopCond_Inclusive(m, c) == c <= Len(m)

\* the test by inequality: the body runs again when the cursor is past the end
LoopCond_NotEqual(m, c) == c # Len(m)

\* while cursor < message.len()
LoopCond(m, c) == c < Len(m)

\* the count dropped: the cursor never moves
AddUsize_Stuck(c, n) == [val |-> c, overflow |-> FALSE]

\* cursor += n on usize: the sum, and whether it left the type's range
AddUsize(c, n) == [val |-> (c + n) % UsizeMod, overflow |-> c + n > UsizeMax]

\* counts a stack that honours send's contract may return for buffer b
HonestCounts(b, k) == 0..Min(k, Len(b))

\* counts above the buffer's length
OverCounts(b) == {Len(b) + 1, UsizeMax - 1, UsizeMax}

\* ------------------------------------------------ a TcpClientStack, T
\* The stack itself is not part of this repository; T is a stack that meets
\* the contracts documented on the trait's methods (tcp.rs:13-55). The answer
\* o is what the transport lets the call do: block, fail, or move o.n bytes.

Sockets == 1..MaxSockets
Remotes == {"r1", "r2"}

Pattern(n) == [i \in 1..n |-> IF i % 2 = 1 THEN "a" ELSE "b"]
Buffers == {Pattern(n) : n \in 0..MaxBuf}

Answers ==
    {[k |-> "wb", n |-> 0], [k |-> "err", n |-> 0]}
        \cup {[k |-> "ok", n |-> i] : i \in 0..MaxBuf}

Call(op, s, r, b, c) == [op |-> op, sock |-> s, remote |-> r, buf |-> b, cap |-> c]
NoCall == Call("none", 0, "none", <<>>, 0)

Res(kind, n, e, d) == [kind |-> kind, n |-> n, e |-> e, data |-> d]
NoResult == Res("none", 0, "none", <<>>)

SetMin(S) == CHOOSE x \in S : \A y \in S : x <= y

Drop(b, n) == SubSeq(b, Min(n, Len(b)) + 1, Len(b))

\* the call is counted and its arguments noted
Called(st, c) == [st EXCEPT !.calls = @ + 1, !.lastCall = c]

\* fn socket(&mut self) -> Result<Self::TcpSocket, Self::Error>
T_socket(st, o) ==
    LET free == {s \in Sockets : st.sk[s] = "free"}
        c == Called(st, Call("socket", 0, "none", <<>>, 0))
    IN  IF o.k = "ok" /\ free # {}
        THEN [st |-> [c EXCEPT !.sk[SetMin(free)] = "open"],
              res |-> Res("Ok", SetMin(free), "none", <<>>)]
        ELSE [st |-> c, res |-> Res("Error", 0, "E1", <<>>)]

\* fn connect(&mut self, socket, remote) -> nb::Result<(), Self::Error>
T_connect(st, s, r, o) ==
    LET c == Called(st, Call("connect", s, r, <<>>, 0))
    IN  IF o.k = "err" \/ st.sk[s] \notin {"open", "connecting"}
        THEN [st |-> c, res |-> Res("Error", 0, "E1", <<>>)]
        ELSE IF o.k = "wb"
        THEN [st |-> [c EXCEPT !.sk[s] = "connecting"],
              res |-> Res("WouldBlock", 0, "none", <<>>)]
        ELSE [st |-> [c EXCEPT !.sk[s] = "connected"],
              res |-> Res("Ready", 0, "none", <<>>)]

\* fn is_connected(&mut self, socket) -> Result<bool, Self::Error>
T_is_connected(st, s, o) ==
    LET c == Called(st, Call("is_connected", s, "none", <<>>, 0))
    IN  IF o.k = "err"
        THEN [st |-> c, res |-> Res("Error", 0, "E2", <<>>)]
        ELSE [st |-> c,
              res |-> Res("Ok", IF st.sk[s] = "connected" THEN 1 ELSE 0, "none", <<>>)]

\* fn send(&mut self, socket, buffer) -> nb::Result<usize, Self::Error>
T_send(st, s, b, o) ==
    LET c == Called(st, Call("send", s, "none", b, 0))
        n == Min(o.n, Len(b))
    IN  IF o.k = "err" \/ st.sk[s] # "connected"
        THEN [st |-> c, res |-> Res("Error", 0, "E2", <<>>)]
        ELSE IF o.k = "wb"
        THEN [st |-> c, res |-> Res("WouldBlock", 0, "none", <<>>)]
        ELSE [st |-> [c EXCEPT !.tx = @ \o Take(b, n)],
              res |-> Res("Ready", n, "none", <<>>)]

\* fn receive(&mut self, socket, buffer) -> nb::Result<usize, Self::Error>
T_receive(st, s, cap, o) ==
    LET c == Called(st, Call("receive", s, "none", <<>>, cap))
        n == Min(Min(o.n, cap), Len(st.rx))
    IN  IF o.k = "err" \/ st.sk[s] # "connected"
        THEN [st |-> c, res |-> Res("Error", 0, "E2", <<>>)]
        ELSE IF o.k = "wb" \/ st.rx = <<>>
        THEN [st |-> c, res |-> Res("WouldBlock", 0, "none", <<>>)]
        ELSE [st |-> [c EXCEPT !.rx = Drop(@, n)],
              res |-> Res("Ready", n, "none", Take(st.rx, n))]

\* fn close(&mut self, socket) -> Result<(), Self::Error>
T_close(st, s, o) ==
    LET c == Called(st, Call("close", s, "none", <<>>, 0))
    IN  IF o.k = "err"
        THEN [st |-> c, res |-> Res("Error", 0, "E1", <<>>)]
        ELSE [st |-> [c EXCEPT !.sk[s] = "free"], res |-> Res("Ok", 0, "none", <<>>)]

\* ------------------------------------ impl TcpClientStack for &mut T
RefMut_socket(st, o) == T_socket(st, o)

RefMut_connect(st, s, r, o) == T_connect(st, s, r, o)

RefMut_is_connected(st, s, o) == T_is_connected(st, s, o)

RefMut_send(st, s, b, o) == T_send(st, s, b, o)

RefMut_receive(st, s, cap, o) == T_receive(st, s, cap, o)

\* close not forwarded: the socket stays open in T
RefMut_close_Dropped(st, s, o) == [st |-> st, res |-> Res("Ok", 0, "none", <<>>)]

RefMut_close(st, s, o) == T_close(st, s, o)

\* ---------------------------------------------------- StackAndSocket
\* StackAndSocket { tcp_stack, socket }: the stack is the state the
\* operations below are given, the socket is kept in the pair
StackAndSocket_new(s) == [socket |-> s]

with_socket(s) == StackAndSocket_new(s)

\* connect called again on WouldBlock
StackAndSocket_connect_Blocking(self, st, r, o) ==
    LET first == T_connect(st, self.socket, r, o)
    IN  IF first.res.kind = "WouldBlock"
        THEN T_connect(first.st, self.socket, r, o)
        ELSE first

StackAndSocket_connect(self, st, r, o) == T_connect(st, self.socket, r, o)

StackAndSocket_is_connected(self, st, o) == T_is_connected(st, self.socket, o)

StackAndSocket_receive(self, st, cap, o) == T_receive(st, self.socket, cap, o)

\* send called again with the rest of the buffer after a short write
StackAndSocket_send_Blocking(self, st, b, o) ==
    LET first == T_send(st, self.socket, b, o)
    IN  IF first.res.kind = "Ready" /\ first.res.n < Len(b)
        THEN LET rest == T_send(first.st, self.socket, Drop(b, first.res.n), o)
             IN  [st |-> rest.st,
                  res |-> IF rest.res.kind = "Ready"
                          THEN Res("Ready", first.res.n + rest.res.n, "none", <<>>)
                          ELSE rest.res]
        ELSE first

StackAndSocket_send(self, st, b, o) == T_send(st, self.socket, b, o)

\* ------------------------------------------- the three ways in step
InitStack(rx0) ==
    [sk |-> [s \in Sockets |-> "free"], tx |-> <<>>, rx |-> rx0,
     calls |-> 0, lastCall |-> NoCall]

FwdParked ==
    /\ stDirect = InitStack(<<>>)
    /\ stRef = stDirect
    /\ stPair = stDirect
    /\ resDirect = NoResult
    /\ resRef = NoResult
    /\ resPair = NoResult
    /\ lastOp = [call |-> NoCall, calls |-> 0, txlen |-> 0, rxlen |-> 0]

InitForward ==
    /\ \E rx0 \in Buffers : stDirect = InitStack(rx0)
    /\ stRef = stDirect
    /\ stPair = stDirect
    /\ resDirect = NoResult
    /\ resRef = NoResult
    /\ resPair = NoResult
    /\ lastOp = [call |-> NoCall, calls |-> 0, txlen |-> 0, rxlen |-> 0]

\* handles the caller holds: sockets obtained from socket() and not yet closed
Held == {s \in Sockets : stDirect.sk[s] # "free"}

Step(c, d, r, p) ==
    /\ stDirect.calls < MaxOps
    /\ lastOp' = [call |-> c, calls |-> stDirect.calls,
                  txlen |-> Len(stDirect.tx), rxlen |-> Len(stDirect.rx)]
    /\ stDirect' = d.st
    /\ resDirect' = d.res
    /\ stRef' = r.st
    /\ resRef' = r.res
    /\ stPair' = p.st
    /\ resPair' = p.res
    /\ UNCHANGED <<wvars, svars>>

\* StackAndSocket offers neither socket nor close: the caller uses the stack
OpSocket(o) ==
    /\ o.k \in {"ok", "err"} /\ o.n = 0
    /\ Step(Call("socket", 0, "none", <<>>, 0),
         T_socket(stDirect, o), RefMut_socket(stRef, o), T_socket(stPair, o))

OpConnect(s, r, o) ==
    /\ s \in Held
    /\ o.n = 0
    /\ Step(Call("connect", s, r, <<>>, 0),
            T_connect(stDirect, s, r, o), RefMut_connect(stRef, s, r, o),
            StackAndSocket_connect(with_socket(s), stPair, r, o))

OpIsConnected(s, o) ==
    /\ s \in Held
    /\ o.k \in {"ok", "err"} /\ o.n = 0
    /\ Step(Call("is_connected", s, "none", <<>>, 0),
            T_is_connected(stDirect, s, o), RefMut_is_connected(stRef, s, o),
            StackAndSocket_is_connected(with_socket(s), stPair, o))

OpSend(s, b, o) ==
    /\ s \in Held
    /\ Step(Call("send", s, "none", b, 0),
            T_send(stDirect, s, b, o), RefMut_send(stRef, s, b, o),
            StackAndSocket_send(with_socket(s), stPair, b, o))

OpReceive(s, cap, o) ==
    /\ s \in Held
    /\ Step(Call("receive", s, "none", <<>>, cap),
            T_receive(stDirect, s, cap, o), RefMut_receive(stRef, s, cap, o),
            StackAndSocket_receive(with_socket(s), stPair, cap, o))

OpClose(s, o) ==
    /\ s \in Held
    /\ o.k \in {"ok", "err"} /\ o.n = 0
    /\ Step(Call("close", s, "none", <<>>, 0),
            T_close(stDirect, s, o), RefMut_close(stRef, s, o), T_close(stPair, s, o))

NextForward ==
    \/ \E o \in Answers : OpSocket(o)
    \/ \E s \in Sockets, r \in Remotes, o \in Answers : OpConnect(s, r, o)
    \/ \E s \in Sockets, o \in Answers : OpIsConnected(s, o)
    \/ \E s \in Sockets, b \in Buffers, o \in Answers : OpSend(s, b, o)
    \/ \E s \in Sockets, cap \in 0..MaxBuf, o \in Answers : OpReceive(s, cap, o)
    \/ \E s \in Sockets, o \in Answers : OpClose(s, o)

\* --------------------------------------------------------- SharedStack
\* share.rs is not among the sources; the borrow discipline below is the one
\* the design states: a borrow is exclusive, taken for one operation, and an
\* attempt made while the stack is borrowed fails at once.

Borrowers == {"A", "B"}

NoAttempt == [out |-> "none", prev |-> "none"]

\* the borrow handed out without looking at who holds the stack
TryBorrow_Unchecked(h, b) == [ok |-> TRUE, holders |-> h \cup {b}]

\* a borrow attempt of borrower b when the borrowers in h hold the stack
TryBorrow(h, b) ==
    IF h = {} THEN [ok |-> TRUE, holders |-> {b}] ELSE [ok |-> FALSE, holders |-> h]

\* the borrow ends when the operation it was taken for completes
ReleaseBorrow(h, b) == h \ {b}

ShareParked ==
    /\ holders = {}
    /\ attempt = [b \in Borrowers |-> NoAttempt]
    /\ seen = [b \in Borrowers |-> {}]
    /\ sharedLog = <<>>

Borrow(b) ==
    /\ Len(sharedLog) + Cardinality(holders) < MaxSharedOps
    /\ LET r == TryBorrow(holders, b) IN
          /\ holders' = r.holders
          /\ attempt' = [attempt EXCEPT
                            ![b] = [out |-> IF r.ok THEN "ok" ELSE "busy",
                                    prev |-> attempt[b].out]]
    /\ seen' = [seen EXCEPT ![b] = holders]
    /\ UNCHANGED <<sharedLog, wvars, fvars>>

\* the holder's operation runs on the stack and its borrow is released
Complete(b) ==
    /\ b \in holders
    /\ sharedLog' = Append(sharedLog, b)
    /\ holders' = ReleaseBorrow(holders, b)
    /\ UNCHANGED <<attempt, seen, wvars, fvars>>

NextShare ==
    \/ \E b \in Borrowers : Borrow(b)
    \/ \E b \in Borrowers : Complete(b)

\* ----------------------------------------------- StackAndSocket::write_str
InitWriteStr ==
    /\ message \in Messages
    /\ cursor = 0
    /\ pc = "loop"
    /\ buf = <<>>
    /\ ret = RetNone
    /\ overflowChecks \in BOOLEAN
    /\ K \in 1..MaxK
    /\ received = <<>>
    /\ acked = 0
    /\ lastRes = NoRes
    /\ lastBuf = <<>>
    /\ overs = 0

WriteParked ==
    /\ message = <<>>
    /\ cursor = 0
    /\ pc = "loop"
    /\ buf = <<>>
    /\ ret = RetNone
    /\ overflowChecks = FALSE
    /\ K = 1
    /\ received = <<>>
    /\ acked = 0
    /\ lastRes = NoRes
    /\ lastBuf = <<>>
    /\ overs = 0

Init == InitWriteStr /\ FwdParked /\ ShareParked

\* the evaluation of `self.tcp_stack.send(self.socket, &message[cursor..])`:
\* the slice is taken (or panics) and the call is issued
IssueSend ==
    IF cursor <= Len(message)
    THEN /\ pc' = "send"
         /\ buf' = Remaining(message, cursor)
         /\ ret' = ret
    ELSE /\ pc' = "oob"
         /\ buf' = <<>>
         /\ ret' = RetPanic

\* the while test: enter the body and call send, or fall through to Ok(())
LoopTest ==
    /\ pc = "loop"
    /\ IF LoopCond(message, cursor)
       THEN IssueSend
       ELSE /\ pc' = "done"
            /\ ret' = RetOk
            /\ buf' = <<>>
    /\ UNCHANGED <<fvars, svars, message, cursor, overflowChecks, K, received, acked,
                   lastRes, lastBuf, overs>>

\* `?` without nb::block!: WouldBlock handed to the caller of write_str
SendWouldBlock_Returns ==
    /\ pc = "send"
    /\ lastRes' = WouldBlock
    /\ lastBuf' = buf
    /\ pc' = "done"
    /\ ret' = RetErr("WouldBlock")
    /\ buf' = <<>>
    /\ UNCHANGED <<fvars, svars, message, cursor, overflowChecks, K, received, acked, overs>>

\* nb::block! on Err(WouldBlock): the expression is evaluated again
SendWouldBlock ==
    /\ pc = "send"
    /\ lastRes' = WouldBlock
    /\ lastBuf' = buf
    /\ IssueSend
    /\ UNCHANGED <<fvars, svars, message, cursor, overflowChecks, K, received, acked, overs>>

\* the error swallowed: write_str returns Ok(())
SendError_Swallowed(e) ==
    /\ pc = "send"
    /\ lastRes' = Error(e)
    /\ lastBuf' = buf
    /\ pc' = "done"
    /\ ret' = RetOk
    /\ buf' = <<>>
    /\ UNCHANGED <<fvars, svars, message, cursor, overflowChecks, K, received, acked, overs>>

\* the error treated as WouldBlock is: the call is made again
SendError_Retries(e) ==
    /\ pc = "send"
    /\ lastRes' = Error(e)
    /\ lastBuf' = buf
    /\ IssueSend
    /\ UNCHANGED <<fvars, svars, message, cursor, overflowChecks, K, received, acked, overs>>

\* `?` on Err(Other(e)): write_str returns Err(e)
SendError(e) ==
    /\ pc = "send"
    /\ lastRes' = Error(e)
    /\ lastBuf' = buf
    /\ pc' = "done"
    /\ ret' = RetErr(e)
    /\ buf' = <<>>
    /\ UNCHANGED <<fvars, svars, message, cursor, overflowChecks, K, received, acked, overs>>

\* Ok(n): cursor += n, back to the while test
OnReady(n) ==
    LET s == AddUsize(cursor, n) IN
    IF s.overflow /\ overflowChecks
    THEN /\ pc' = "panic"
         /\ ret' = RetPanic
         /\ cursor' = cursor
    ELSE /\ pc' = "loop"
         /\ ret' = ret
         /\ cursor' = s.val

\* the stack accepts the first n bytes of the buffer and says so
SendReady(n) ==
    /\ pc = "send"
    /\ n \in HonestCounts(buf, K)
    /\ received' = received \o Take(buf, n)
    /\ acked' = acked + n
    /\ lastRes' = Ready(n)
    /\ lastBuf' = buf
    /\ buf' = <<>>
    /\ OnReady(n)
    /\ UNCHANGED <<fvars, svars, message, overflowChecks, K, overs>>

\* the stack accepts a bytes of the buffer and reports n > buffer.len()
SendOverReport(n, a) ==
    /\ pc = "send"
    /\ overs < MaxOver
    /\ n \in OverCounts(buf)
    /\ a \in 0..Len(buf)
    /\ received' = received \o Take(buf, a)
    /\ acked' = acked + n
    /\ lastRes' = Ready(n)
    /\ lastBuf' = buf
    /\ buf' = <<>>
    /\ overs' = overs + 1
    /\ OnReady(n)
    /\ UNCHANGED <<fvars, svars, message, overflowChecks, K>>

Next ==
    \/ LoopTest
    \/ SendWouldBlock
    \/ \E e \in Errors : SendError(e)
    \/ \E n \in 0..MaxK : SendReady(n)

NextOver ==
    \/ Next
    \/ \E n \in (1..(MaxLen + 1)) \cup {UsizeMax - 1, UsizeMax}, a \in 0..MaxLen :
          SendOverReport(n, a)

Spec == Init /\ [][Next]_vars

SpecOver == Init /\ [][NextOver]_vars

InitForwardSpec == WriteParked /\ InitForward /\ ShareParked

SpecForward == InitForwardSpec /\ [][NextForward]_vars

InitShareSpec == WriteParked /\ FwdParked /\ ShareParked

SpecShare == InitShareSpec /\ [][NextShare]_vars

\* every answer but WouldBlock
SendAnswer ==
    \/ \E e \in Errors : SendError(e)
    \/ \E n \in 0..MaxK : SendReady(n)

\* The program keeps running, and the stack, called again and again, does not
\* answer WouldBlock forever.
LiveSpec == Init /\ [][Next]_vars /\ WF_vars(LoopTest) /\ WF_vars(SendAnswer)

\* ------------------------------------------------------------------ claims

IsPrefix(p, m) == Len(p) <= Len(m) /\ p = SubSeq(m, 1, Len(p))

\* C1: when write_str returns Ok against a stack that accepts at most K bytes
\* per call, the bytes the stack accepted, in call order, are exactly the
\* message, and no call accepted more than K bytes (or more than it was given).
C1_ExactDelivery ==
    /\ ret = RetOk => received = message
    /\ lastRes.kind = "Ready" => lastRes.n <= K /\ lastRes.n <= Len(lastBuf)
    /\ IsPrefix(received, message)

C1_Witness ==
    /\ ret = RetOk
    /\ Len(message) > K
    /\ received = message
    /\ message = <<"a", "b", "a">>

\* C2: on the first Error from send, write_str returns that error at once: no
\* send call is in flight or issued afterwards, and what the stack accepted
\* before it is the prefix message[..cursor], accepted once.
C2_ErrorStops ==
    lastRes.kind = "Error" =>
        /\ pc = "done"
        /\ ret = RetErr(lastRes.e)
        /\ buf = <<>>
        /\ IsPrefix(received, message)
        /\ Len(received) = cursor
        /\ ~ENABLED Next

C2_Witness ==
    /\ lastRes = Error("E2")
    /\ ret = RetErr("E2")
    /\ Len(received) = 2
    /\ Len(message) = 3

\* the call in flight and the empty message, state by state
C7_SuffixInv ==
    /\ pc = "send" =>
          /\ buf # <<>>
          /\ acked < Len(message)
          /\ buf = SubSeq(message, acked + 1, Len(message))
    /\ Len(message) = 0 =>
          /\ pc \in {"loop", "done"}
          /\ lastRes = NoRes
          /\ pc = "done" => ret = RetOk

\* C7: every send call write_str issues carries the non-empty unsent suffix
\* of the message, starting at the sum of the counts returned so far; that offset
\* never decreases; an empty message issues no call and returns Ok.
C7_UnsentSuffix == []C7_SuffixInv /\ [][cursor' >= cursor /\ acked' >= acked]_vars

C7_Witness ==
    /\ pc = "send"
    /\ acked = 2
    /\ buf = <<"b">>
    /\ lastRes = Ready(1)

\* after a WouldBlock answer the same call is in flight and nothing was returned
C8_WouldBlockInv ==
    /\ lastRes.kind = "WouldBlock" =>
          /\ pc = "send"
          /\ ret = RetNone
          /\ buf = lastBuf
    /\ ret.kind = "Err" => ret.e \in Errors

\* C8: a WouldBlock answer is never returned by write_str and changes nothing
\* in it: the cursor stays, and the call is issued again with the same slice.
C8_WouldBlockRetries ==
    /\ []C8_WouldBlockInv
    /\ [][lastRes'.kind = "WouldBlock" =>
            /\ cursor' = cursor
            /\ buf' = buf
            /\ received' = received
            /\ acked' = acked
            /\ ret' = ret]_vars

C8_Witness ==
    /\ lastRes.kind = "WouldBlock"
    /\ cursor = 1
    /\ buf = <<"b", "a">>
    /\ pc = "send"

\* C6 as stated: write_str returns whenever send does not answer WouldBlock
\* forever, a stack that keeps answering Ready(0) included.
C6_AlwaysReturns == <>(pc = "done")

\* C6, amended: write_str returns unless the stack answers Ready(0) again and
\* again without end.
C6_ReturnsUnlessZeroForever == ([]<>(lastRes = Ready(0))) \/ <>(pc = "done")

C6_Witness ==
    /\ pc = "done"
    /\ ret = RetOk
    /\ Len(message) = 2
    /\ lastRes = Ready(1)
    /\ received = message

OverReported == lastRes.kind = "Ready" /\ lastRes.n > Len(lastBuf)

\* C10 as stated: with an honest stack 0 <= cursor <= message.len() and Ok
\* means cursor = message.len(); after an over-report write_str is on its way to
\* Ok, having sliced nothing out of bounds.
C10_AsStated ==
    /\ overs = 0 => cursor \in 0..Len(message)
    /\ overs = 0 /\ ret = RetOk => cursor = Len(message)
    /\ pc # "oob"
    /\ OverReported =>
          /\ pc \in {"loop", "done"}
          /\ cursor > Len(message)
          /\ pc = "done" => ret = RetOk

\* C10, amended: the over-report leads to Ok only when cursor + n stays within
\* usize; when it does not, the addition panics or wraps. No slice is ever
\* taken out of bounds.
C10_CursorBounds ==
    /\ overs = 0 => cursor \in 0..Len(message)
    /\ overs = 0 /\ ret = RetOk => cursor = Len(message)
    /\ pc # "oob"
    /\ pc = "send" => cursor < Len(message) /\ buf = SubSeq(message, cursor + 1, Len(message))
    /\ OverReported /\ acked <= UsizeMax =>
          /\ pc \in {"loop", "done"}
          /\ cursor = acked
          /\ cursor > Len(message)
          /\ pc = "done" => ret = RetOk
    /\ ret = RetOk => cursor >= Len(message)
    /\ pc = "panic" => overflowChecks /\ OverReported /\ cursor + lastRes.n > UsizeMax

C10_Witness ==
    /\ OverReported
    /\ ret = RetOk
    /\ cursor > Len(message)
    /\ Len(received) < Len(message)
    /\ overs = 1

ViaAdapter == {"connect", "is_connected", "receive", "send"}

\* C3 as stated: StackAndSocket::send returns success only after the stack
\* has accepted all L bytes of the buffer.
C3_SendWritesAll ==
    lastOp.call.op = "send" /\ resPair.kind = "Ready" =>
        Len(stPair.tx) = lastOp.txlen + Len(lastOp.call.buf)

\* C3, amended: StackAndSocket::send makes one call of the stack's send and
\* returns its answer: on Ready(n) the stack accepted n <= L bytes, n < L
\* included, and nothing is retried; the loop until all is written is
\* write_str's.
C3_SendIsOneCall ==
    lastOp.call.op = "send" =>
        /\ stPair.calls = lastOp.calls + 1
        /\ resPair.kind = "Ready" =>
              /\ resPair.n <= Len(lastOp.call.buf)
              /\ Len(stPair.tx) = lastOp.txlen + resPair.n
              /\ stPair.tx = SubSeq(stPair.tx, 1, lastOp.txlen)
                                \o SubSeq(lastOp.call.buf, 1, resPair.n)
        /\ resPair.kind # "Ready" => Len(stPair.tx) = lastOp.txlen

C3_Witness ==
    /\ lastOp.call.op = "send"
    /\ resPair.kind = "Ready"
    /\ resPair.n = 1
    /\ Len(lastOp.call.buf) = 2
    /\ stPair.calls = lastOp.calls + 1

\* C4: a sequence of socket, connect, is_connected, send, receive and close
\* issued through &mut T gives, at every step, the result and the stack state
\* that issuing it on T gives; each operation reaches T once, as the same
\* operation with the same arguments.
C4_RefMutForwards ==
    /\ resRef = resDirect
    /\ stRef = stDirect
    /\ lastOp.call.op # "none" =>
          /\ stRef.calls = lastOp.calls + 1
          /\ stRef.lastCall = lastOp.call

C4_Witness ==
    /\ stRef.calls = 4
    /\ lastOp.call.op = "close"
    /\ resRef.kind = "Ok"
    /\ Len(stRef.tx) = 1
    /\ stRef.sk[1] = "free"

\* C9: StackAndSocket's connect, is_connected, receive and send each make one
\* call of the same operation of the stack, with the bundled socket, and return
\* what it returned: WouldBlock and a short count come back as they are.
C9_AdapterForwards ==
    lastOp.call.op \in ViaAdapter =>
        /\ stPair.calls = lastOp.calls + 1
        /\ stPair.lastCall = lastOp.call
        /\ resPair = resDirect
        /\ stPair = stDirect

C9_Witness ==
    /\ lastOp.call.op = "connect"
    /\ resPair.kind = "WouldBlock"
    /\ stPair.sk[lastOp.call.sock] = "connecting"
    /\ stPair.calls = lastOp.calls + 1

\* C5: at most one borrower holds the SharedStack's stack; an attempt made
\* while it is held fails, and an attempt made when it is free succeeds, so the
\* operations served are those of successive single holders.
C5_ExclusiveBorrow ==
    /\ Cardinality(holders) <= 1
    /\ \A b \in Borrowers :
          /\ attempt[b].out = "busy" => seen[b] # {}
          /\ attempt[b].out = "ok" => seen[b] = {}
          /\ b \in holders => attempt[b].out # "none"

C5_Witness ==
    /\ attempt["B"] = [out |-> "ok", prev |-> "busy"]
    /\ holders = {"B"}
    /\ sharedLog = <<"A">>

====
